---- MODULE Spec2Model ----
EXTENDS Integers, Sequences, FiniteSets, TLC

(***************************************************************************)
(* Frame quality assessment (frameQuality module).  Metric values are kept *)
(* as integers in hundredths (x100); luminance is kept in tenths.          *)
(***************************************************************************)

\* JavaScript NaN, the result of 0/0 or of arithmetic on an undefined sample.
NaN == -1

Abs(x) == IF x < 0 THEN 0 - x ELSE x

Min(a, b) == IF a < b THEN a ELSE b

Max(a, b) == IF a > b THEN a ELSE b

\* floor(sqrt(x)) by bisection on [lo, hi], lo*lo <= x < hi*hi.
RECURSIVE SqrtBisect(_, _, _)
SqrtBisect(x, lo, hi) ==
    IF hi - lo <= 1 THEN lo
    ELSE LET mid == (lo + hi) \div 2
         IN IF mid * mid <= x THEN SqrtBisect(x, mid, hi)
                              ELSE SqrtBisect(x, lo, mid)

ISqrt(x) == SqrtBisect(x, 0, 46341)

\* An ImageData of the pixels px[row, col] (gray levels): RGBA bytes, row-major;
\* data[k+1] is the JS element data[k].
ImageOf(w, h, px) ==
    [width |-> w, height |-> h,
     data |-> [k \in 1..(4 * w * h) |->
                 IF (k - 1) % 4 = 3 THEN 255
                 ELSE px[((k - 1) \div 4) \div w, ((k - 1) \div 4) % w]]]

\* data[i] of a typed array: undefined (here NaN) outside the array.
At(data, i) == IF i + 1 \in DOMAIN data THEN data[i + 1] ELSE NaN

\* the sample offsets 0, 16, 32, ... below len
Strided(len) == {i \in 0..(len - 1) : i % 16 = 0}

RECURSIVE SumOver(_, _)
SumOver(S, f) ==
    IF S = {} THEN 0
    ELSE LET x == CHOOSE y \in S : TRUE IN f[x] + SumOver(S \ {x}, f)

\* 0.299 r + 0.587 g + 0.114 b, in tenths
Lum10(data, i) ==
    (299 * At(data, i) + 587 * At(data, i + 1) + 114 * At(data, i + 2)) \div 100

estimateBrightness(imageData) ==
    LET data == imageData.data
        len  == Len(data)
        S    == Strided(len)
        sum  == SumOver(S, [i \in S |-> Lum10(data, i)])
    IN IF len = 0 THEN NaN ELSE (sum * 160) \div len

estimateContrast(imageData) ==
    LET data == imageData.data
        S    == Strided(Len(data))
        n    == Cardinality(S)
        s1   == SumOver(S, [i \in S |-> Lum10(data, i)])
        s2   == SumOver(S, [i \in S |-> Lum10(data, i) * Lum10(data, i)])
        V    == n * s2 - s1 * s1
        nn   == n * n
    IN ISqrt((V \div nn) * 100 + ((V % nn) * 100) \div nn)

SharpSamples(imageData) ==
    {<<i, j>> \in (0..(imageData.height - 5)) \X (0..(imageData.width - 5)) :
        i % 4 = 0 /\ j % 4 = 0}

estimateSharpness(imageData) ==
    LET data  == imageData.data
        width == imageData.width
        S     == SharpSamples(imageData)
        grad  == [p \in S |->
                   LET idx      == (p[1] * width + p[2]) * 4
                       idxRight == (p[1] * width + p[2] + 1) * 4
                       idxDown  == ((p[1] + 1) * width + p[2]) * 4
                       gradX    == Abs(At(data, idx) - At(data, idxRight))
                       gradY    == Abs(At(data, idx) - At(data, idxDown))
                   IN ISqrt((gradX * gradX + gradY * gradY) * 10000)]
        count == Cardinality(S)
    IN IF count = 0 THEN NaN
       ELSE Min(25500, (SumOver(S, grad) * 2) \div count)

\* prevImageData = <<>> stands for null.
estimateStability(prevImageData, currImageData) ==
    IF prevImageData = <<>> THEN 10000
    ELSE LET prev == prevImageData.data
             curr == currImageData.data
             S    == Strided(Len(prev))
             count == Cardinality(S)
         IN IF count = 0 \/ \E i \in S : At(curr, i) = NaN THEN NaN
            ELSE LET totalDiff == SumOver(S, [i \in S |-> Abs(prev[i + 1] - At(curr, i))])
                 IN Max(0, (30000 * count - 1000 * totalDiff) \div (3 * count))

\* Math.round of a value in hundredths; NaN stays NaN.
Round(x100) == IF x100 = NaN THEN NaN ELSE (x100 + 50) \div 100

\* x < t of JavaScript for x in hundredths: false when x is NaN.
Lt(x100, t) == x100 # NaN /\ x100 < t * 100

Gt(x100, t) == x100 # NaN /\ x100 > t * 100

BrightnessPenalty(brightness) ==
    IF Lt(brightness, 30) \/ Gt(brightness, 240) THEN 30
    ELSE IF Lt(brightness, 50) \/ Gt(brightness, 200) THEN 15 ELSE 0

\* ContrastPenalty with its two bands swapped
ContrastPenaltySwapped(contrast) ==
    IF Lt(contrast, 20) THEN 10 ELSE IF Lt(contrast, 40) THEN 20 ELSE 0

ContrastPenalty(contrast) ==
    IF Lt(contrast, 20) THEN 20 ELSE IF Lt(contrast, 40) THEN 10 ELSE 0

\* SharpnessPenalty without its second band
SharpnessPenaltyOneBand(sharpness) ==
    IF Lt(sharpness, 30) THEN 40 ELSE 0

SharpnessPenalty(sharpness) ==
    IF Lt(sharpness, 30) THEN 40 ELSE IF Lt(sharpness, 60) THEN 20 ELSE 0

StabilityPenalty(stability) ==
    IF Lt(stability, 50) THEN 20 ELSE IF Lt(stability, 75) THEN 10 ELSE 0

ScoreOf(brightness, contrast, sharpness, stability) ==
    Max(0, 100 - BrightnessPenalty(brightness) - ContrastPenalty(contrast)
               - SharpnessPenalty(sharpness) - StabilityPenalty(stability))

\* the four estimates assessFrameQuality starts from
Estimates(imageData, prevImageData) ==
    [brightness |-> estimateBrightness(imageData),
     contrast   |-> estimateContrast(imageData),
     sharpness  |-> estimateSharpness(imageData),
     stability  |-> estimateStability(prevImageData, imageData)]

\* the scoring and the record assessFrameQuality returns, from the estimates
MetricsOf(e) ==
    [brightness |-> Round(e.brightness),
     contrast   |-> Round(e.contrast),
     sharpness  |-> Round(e.sharpness),
     stability  |-> Round(e.stability),
     score      |-> ScoreOf(e.brightness, e.contrast, e.sharpness, e.stability)]

assessFrameQuality(imageData, prevImageData) ==
    MetricsOf(Estimates(imageData, prevImageData))

isFrameGoodQuality(metrics, threshold) == metrics.score >= threshold

\* The scenes the camera can show: 8x8 frames.
DarkPx == [r \in 0..7, c \in 0..7 |-> 0]

GrayPx == [r \in 0..7, c \in 0..7 |-> 128]

FrameIds == {"dark", "gray"}

Frames == [f \in FrameIds |->
             IF f = "dark" THEN ImageOf(8, 8, DarkPx) ELSE ImageOf(8, 8, GrayPx)]

FrameOrNull(p) == IF p = "null" THEN <<>> ELSE Frames[p]

MetricsTable == [p \in FrameIds \cup {"null"}, f \in FrameIds |->
                   assessFrameQuality(Frames[f], FrameOrNull(p))]


(***************************************************************************)
(* Bounds and program constants                                            *)
(***************************************************************************)

\* number of getUserMedia requests a run may issue
MaxReq == 2

\* number of WebSocket objects a run may create
MaxSock == 2

\* minQuality passed by LiveVideoAnalysis to useVideoStream
minQuality == 40

MaxCreate == 2

MaxConfirm == 2

CreateIds == 1..MaxCreate

ConfirmIds == 1..MaxConfirm

\* the session the server makes for a message sent without one
ChatSession == MaxCreate + 1

ReqIds == 1..MaxReq

SockIds == 1..MaxSock

\* the metrics record of the fallback path
Placeholder ==
    [brightness |-> 0, contrast |-> 0, sharpness |-> 0, stability |-> 100, score |-> 50]

\* the inbound messages the server of a run sends: every type of VisionResult;
\* "complete_empty" is a complete message without a result payload, "malformed"
\* a text JSON.parse rejects
MsgKinds == {"processing_started", "token", "partial", "complete", "complete_empty",
             "error", "dropped", "low_confidence", "quality_warning", "malformed"}

TypeOf(m) == IF m = "complete_empty" THEN "complete" ELSE m

Terminal == {"complete", "error", "dropped"}

VARIABLES
    \* ---- useVideoStream ----
    cam,               \* per getUserMedia request: unused, pending, rejected, live, stopped
    streamRef,         \* streamRef.current: a request id, 0 for null
    prevImageDataRef,  \* prevImageDataRef.current: a frame id or "null"
    isStreaming, camError, frameMetrics,
    \* ---- useVisionWebSocket ----
    sock,              \* per WebSocket: unused, connecting, open, closing, closed
    gotFrame,          \* the server has received a frame on the socket
    wsRef,             \* wsRef.current: a socket id, 0 for null
    isConnected, isProcessing, currentResult, wsError,
    \* ---- LiveVideoAnalysis ----
    mode, detectionResult,
    isConnectedRef, isProcessingRef,
    shownMode, shownDetection, shownCamError,   \* what the committed render shows
    timerActive,       \* the capture interval of the auto-capture effect is set
    mounted,
    exitPending,       \* onDetectionComplete was called: the parent leaves live mode
    dirty,             \* a state update is scheduled and not yet rendered
    \* ---- history of the last step ----
    called,            \* the operations, handlers and callbacks the step invoked
    discPre,           \* ready state of wsRef.current when the step called disconnect()
    stopPre,           \* state of the capture loop when the step called stopStream()
    tick,              \* what the capture tick of the step did
    evSock,            \* the socket whose event the step delivered, 0 if none
    evMsg,             \* the message the step delivered, and isProcessing before it
    \* ---- history ----
    termSeen,          \* a terminal result arrived while streaming, and the loop still streams
    \* ---- frameQuality called on its own ----
    qImage,            \* imageData: a buffer <<width, height, pattern>>
    qPrev,             \* prevImageData: a buffer, <<>> for null
    qRaw,              \* the four estimates, before rounding
    qOut,              \* the value returned, <<>> before the call
    \* ---- sendFrame called on its own ----
    sfArg,             \* base64Frame: the string, as a sequence of its pieces
    sfCalled,          \* sendFrame has been called
    sfWire,            \* what the call put on the socket, <<>> for nothing
    \* ---- Home (app/page.tsx) ----
    isLiveMode,
    currentSessionId,  \* a session id, 0 for null
    createReq,         \* per createSession request: its state and the caller
    loadReq,           \* the getSessions request of the mount effect
    pageDirty,         \* a state update of Home is not yet rendered
    pendingDetection,  \* pendingDetection.sessionId, 0 for null
    isLoading,
    msgReq,            \* the sendMessage request of handleSendMessage
    confirm            \* per call of handleConfirmDetection: where it stands

videoVars == <<cam, streamRef, prevImageDataRef, isStreaming, camError, frameMetrics>>

wsVars == <<sock, gotFrame, wsRef, isConnected, isProcessing, currentResult, wsError>>

compVars == <<mode, detectionResult>>

commitVars == <<isConnectedRef, isProcessingRef, shownMode, shownDetection, shownCamError,
                timerActive>>

lifeVars == <<mounted, exitPending>>

histVars == <<called, discPre, stopPre, tick, evSock, evMsg, termSeen>>

qualVars == <<qImage, qPrev, qRaw, qOut>>

progVars == <<videoVars, wsVars, compVars, commitVars, lifeVars, dirty, histVars>>

sendVars == <<sfArg, sfCalled, sfWire>>

pageVars == <<isLiveMode, currentSessionId, createReq, loadReq, pageDirty,
              pendingDetection, isLoading, msgReq, confirm>>

\* what the live-analysis component and its hooks never touch
auxVars == <<qualVars, sendVars, pageVars>>

vars == <<progVars, auxVars>>

\* the values held by useState cells
ReactState == <<isStreaming, camError, frameMetrics, isConnected, isProcessing,
                currentResult, wsError, mode, detectionResult>>

NoTick == [avail |-> FALSE, calls |-> 0, metrics |-> <<>>, real |-> <<>>,
           sent |-> FALSE, connected |-> FALSE, processing |-> FALSE,
           sendCalled |-> FALSE, ready |-> "absent", wire |-> <<>>]

NoMsg == [kind |-> "none", processing |-> FALSE]

\* videoRef.current and canvasRef.current: the elements exist only in the
\* streaming screen of the mounted component
videoRefSet == mounted /\ shownMode = "streaming"

InitRest ==
    /\ cam = [i \in ReqIds |-> "unused"]
    /\ streamRef = 0
    /\ prevImageDataRef = "null"
    /\ isStreaming = FALSE /\ camError = FALSE /\ frameMetrics = <<>>
    /\ gotFrame = [s \in SockIds |-> FALSE]
    /\ isConnected = FALSE /\ isProcessing = FALSE
    /\ currentResult = "null" /\ wsError = FALSE
    /\ mode = "setup" /\ detectionResult = "null"
    /\ isConnectedRef = FALSE /\ isProcessingRef = FALSE
    /\ shownMode = "setup" /\ shownDetection = "null" /\ shownCamError = FALSE
    /\ timerActive = FALSE
    /\ mounted = TRUE /\ exitPending = FALSE
    /\ dirty = FALSE
    /\ called = {} /\ discPre = "none" /\ stopPre = "none" /\ tick = NoTick
    /\ evSock = 0 /\ evMsg = NoMsg /\ termSeen = FALSE

\* the component as it mounts: no socket has been made
InitProg ==
    /\ InitRest
    /\ sock = [s \in SockIds |-> "unused"]
    /\ wsRef = 0

\* frameQuality is not called on its own
QualIdle == qImage = <<>> /\ qPrev = <<>> /\ qRaw = <<>> /\ qOut = <<>>

\* sendFrame is not called on its own
SendIdle == sfArg = <<>> /\ sfCalled = FALSE /\ sfWire = <<>>

NoCreate == [state |-> "unused", by |-> "none"]

NoConfirm == [pc |-> "unused", session |-> 0, update |-> "none", searches |-> 0,
              searchSession |-> 0]

\* Home after its first render: the mount effect has called loadSessions()
PageInit ==
    /\ isLiveMode = FALSE /\ currentSessionId = 0
    /\ createReq = [i \in CreateIds |-> NoCreate]
    /\ loadReq = "pending"
    /\ pageDirty = FALSE
    /\ pendingDetection = 0 /\ isLoading = FALSE
    /\ msgReq = [pc |-> "idle", session |-> 0]
    /\ confirm = [k \in ConfirmIds |-> NoConfirm]

Init == InitProg /\ QualIdle /\ SendIdle /\ PageInit

\* history of a step that calls neither stopStream nor disconnect and is no tick
NoStop == stopPre' = "none"

NoDisconnect == discPre' = "none"

NoCapture == tick' = NoTick

\* a step that delivers no socket event
NoEvent == evSock' = 0 /\ evMsg' = NoMsg

(***************************************************************************)
(* useVideoStream                                                          *)
(***************************************************************************)

\* startStream up to its await: a getUserMedia request is issued
startStream ==
    \E i \in ReqIds :
       /\ cam[i] = "unused"
       /\ \A j \in ReqIds : j < i => cam[j] # "unused"
       /\ cam' = [cam EXCEPT ![i] = "pending"]

\* the cells of useVideoStream as one record
VideoRec == [cam |-> cam, streamRef |-> streamRef, prevImageDataRef |-> prevImageDataRef,
             isStreaming |-> isStreaming, error |-> camError, frameMetrics |-> frameMetrics]

\* stopStream as a function of the hook's cells
stopStreamFn(v) ==
    IF v.streamRef # 0
    THEN [v EXCEPT !.cam = [v.cam EXCEPT ![v.streamRef] = "stopped"],
                   !.streamRef = 0,
                   !.isStreaming = FALSE]
    ELSE v

stopStream ==
    LET r == stopStreamFn(VideoRec)
    IN /\ cam' = r.cam
       /\ streamRef' = r.streamRef
       /\ prevImageDataRef' = r.prevImageDataRef
       /\ isStreaming' = r.isStreaming
       /\ camError' = r.error
       /\ frameMetrics' = r.frameMetrics
       /\ stopPre' = IF isStreaming THEN "streaming" ELSE "idle"

\* the cleanup of the unmount effect of useVideoStream
cleanupFn(v) ==
    IF v.streamRef # 0
    THEN [v EXCEPT !.cam = [v.cam EXCEPT ![v.streamRef] = "stopped"],
                   !.streamRef = 0]
    ELSE v

(***************************************************************************)
(* useVisionWebSocket                                                      *)
(***************************************************************************)

\* connect: a new socket with its four handlers; the handle is overwritten
connect ==
    \E s \in SockIds :
       /\ sock[s] = "unused"
       /\ \A t \in SockIds : t < s => sock[t] # "unused"
       /\ sock' = [sock EXCEPT ![s] = "connecting"]
       /\ wsRef' = s

\* the cells of useVisionWebSocket as one record
WsRec == [sock |-> sock, wsRef |-> wsRef, isConnected |-> isConnected,
          isProcessing |-> isProcessing, currentResult |-> currentResult, error |-> wsError]

\* wsRef.current?.readyState
ReadyStateOf(w) == IF w.wsRef = 0 THEN "absent" ELSE w.sock[w.wsRef]

ReadyState == ReadyStateOf(WsRec)

\* disconnect that resets the flags and the handle only for an open socket
disconnectFnOpenOnly(w) ==
    IF ReadyStateOf(w) = "open"
    THEN [w EXCEPT !.sock = [w.sock EXCEPT ![w.wsRef] = "closing"],
                   !.wsRef = 0,
                   !.isConnected = FALSE,
                   !.isProcessing = FALSE]
    ELSE w

\* disconnect that also clears the current result
disconnectFnReset(w) ==
    [w EXCEPT !.sock = IF ReadyStateOf(w) = "open"
                       THEN [w.sock EXCEPT ![w.wsRef] = "closing"] ELSE w.sock,
              !.wsRef = 0,
              !.isConnected = FALSE,
              !.isProcessing = FALSE,
              !.currentResult = "null"]

\* disconnect as a function of the hook's cells
disconnectFn(w) ==
    [w EXCEPT !.sock = IF ReadyStateOf(w) = "open"
                       THEN [w.sock EXCEPT ![w.wsRef] = "closing"] ELSE w.sock,
              !.wsRef = 0,
              !.isConnected = FALSE,
              !.isProcessing = FALSE]

disconnect ==
    LET r == disconnectFn(WsRec)
    IN /\ sock' = r.sock
       /\ wsRef' = r.wsRef
       /\ isConnected' = r.isConnected
       /\ isProcessing' = r.isProcessing
       /\ currentResult' = r.currentResult
       /\ wsError' = r.error
       /\ discPre' = ReadyState

(***************************************************************************)
(* LiveVideoAnalysis: the click handlers.  React renders the updates of a  *)
(* click before the handler's task ends; the effects of that render copy   *)
(* state into the refs and set or clear the capture interval.              *)
(***************************************************************************)

CommitAfterClick ==
    /\ shownMode' = mode'
    /\ shownDetection' = detectionResult'
    /\ shownCamError' = camError'
    /\ isConnectedRef' = isConnected'
    /\ isProcessingRef' = isProcessing'
    /\ timerActive' = isStreaming'
    /\ dirty' = FALSE

\* the Start Live Analysis button of the setup screen is shown and enabled
StartButtonEnabled == mounted /\ shownMode = "setup" /\ ~shownCamError

\* the Retry button of the result screen is shown
RetryButtonShown == mounted /\ shownMode = "result" /\ shownDetection # "null"

\* the Stop button of the streaming screen is shown
StopButtonShown == mounted /\ shownMode = "streaming"

handleStart ==
    /\ StartButtonEnabled
    /\ startStream
    /\ connect
    /\ mode' = "streaming"
    /\ UNCHANGED <<streamRef, prevImageDataRef, isStreaming, camError, frameMetrics>>
    /\ UNCHANGED <<gotFrame, isConnected, isProcessing, currentResult, wsError>>
    /\ UNCHANGED <<detectionResult, lifeVars, termSeen>>
    /\ called' = {"startStream", "connect"}
    /\ NoEvent
    /\ UNCHANGED auxVars
    /\ NoStop /\ NoDisconnect /\ NoCapture
    /\ CommitAfterClick

handleStop ==
    /\ StopButtonShown
    /\ stopStream
    /\ disconnect
    /\ mode' = "setup"
    /\ UNCHANGED <<gotFrame, detectionResult, lifeVars>>
    /\ called' = {"stopStream", "disconnect"}
    /\ NoEvent
    /\ UNCHANGED auxVars
    /\ NoCapture
    /\ termSeen' = (termSeen /\ isStreaming')
    /\ CommitAfterClick

handleRetry ==
    /\ RetryButtonShown
    /\ detectionResult' = "null"
    /\ startStream
    /\ connect
    /\ mode' = "streaming"
    /\ UNCHANGED <<streamRef, prevImageDataRef, isStreaming, camError, frameMetrics>>
    /\ UNCHANGED <<gotFrame, isConnected, isProcessing, currentResult, wsError>>
    /\ UNCHANGED <<lifeVars, termSeen>>
    /\ called' = {"startStream", "connect"}
    /\ NoEvent
    /\ UNCHANGED auxVars
    /\ NoStop /\ NoDisconnect /\ NoCapture
    /\ CommitAfterClick

\* the Cancel button of the result screen: setMode('setup')
handleCancel ==
    /\ mounted /\ shownMode = "result" /\ shownDetection # "null"
    /\ mode' = "setup"
    /\ UNCHANGED <<videoVars, wsVars, detectionResult, lifeVars, termSeen>>
    /\ called' = {"setMode"}
    /\ NoEvent
    /\ UNCHANGED auxVars
    /\ NoStop /\ NoDisconnect /\ NoCapture
    /\ CommitAfterClick

(***************************************************************************)
(* The getUserMedia promise settles: the rest of startStream runs          *)
(***************************************************************************)

\* Updates made outside a click handler are rendered by a later task.
Schedule == dirty' = (mounted /\ (dirty \/ ReactState' # ReactState))

\* a setState call reaches the cell only while the component is mounted
Set(old, new) == IF mounted THEN new ELSE old

cameraResolve(i) ==
    /\ cam[i] = "pending"
    /\ cam' = [cam EXCEPT ![i] = "live"]
    /\ IF videoRefSet
       THEN /\ streamRef' = i
            /\ isStreaming' = TRUE
            /\ camError' = FALSE
       ELSE UNCHANGED <<streamRef, isStreaming, camError>>
    /\ UNCHANGED <<prevImageDataRef, frameMetrics, wsVars, compVars, commitVars,
                   lifeVars, termSeen>>
    /\ called' = {"startStream.resolved"}
    /\ NoEvent
    /\ UNCHANGED auxVars
    /\ NoStop /\ NoDisconnect /\ NoCapture
    /\ Schedule

cameraReject(i) ==
    /\ cam[i] = "pending"
    /\ cam' = [cam EXCEPT ![i] = "rejected"]
    /\ camError' = Set(camError, TRUE)
    /\ isStreaming' = Set(isStreaming, FALSE)
    /\ UNCHANGED <<streamRef, prevImageDataRef, frameMetrics, wsVars, compVars,
                   commitVars, lifeVars>>
    /\ called' = {"startStream.rejected"}
    /\ NoEvent
    /\ UNCHANGED auxVars
    /\ NoStop /\ NoDisconnect /\ NoCapture
    /\ termSeen' = (termSeen /\ isStreaming')
    /\ Schedule

(***************************************************************************)
(* The capture interval fires                                              *)
(***************************************************************************)

\* handleFrame: the frame goes to sendFrame when the refs allow it
handleFrameSends == isConnectedRef /\ ~isProcessingRef

\* sendFrame transmits when the handle's socket is open
sendFrameSends == ReadyState = "open"

\* the sessionId prop of LiveVideoAnalysis
sessionId == "session"

\* canvas.toDataURL('image/jpeg', 0.85): the characters of the string in
\* pieces; the piece "," is a comma, no other piece holds one
toDataURL(f) == <<"data:image/jpeg;base64", ",", f>>

\* str.includes(',')
IncludesComma(str) == \E i \in 1..Len(str) : str[i] = ","

\* str.split(',')[1]: what lies between the first comma and the next
SplitComma1(str) ==
    LET first == CHOOSE i \in 1..Len(str) :
                    str[i] = "," /\ \A j \in 1..(i - 1) : str[j] # ","
        after == SubSeq(str, first + 1, Len(str))
        stop  == IF IncludesComma(after)
                 THEN (CHOOSE i \in 1..Len(after) :
                          after[i] = "," /\ \A j \in 1..(i - 1) : after[j] # ",") - 1
                 ELSE Len(after)
    IN SubSeq(after, 1, stop)

\* sendFrame that also sends on a socket that is closing
sendFrameWhileClosing(base64Frame) ==
    IF ReadyState \in {"open", "closing"}
    THEN LET frameData == IF IncludesComma(base64Frame)
                          THEN SplitComma1(base64Frame) ELSE base64Frame
         IN [type |-> "frame", data |-> frameData, session_id |-> sessionId]
    ELSE <<>>

\* sendFrame that keeps what lies before the first comma
sendFrameKeepsPrefix(base64Frame) ==
    IF sendFrameSends
    THEN LET frameData == IF IncludesComma(base64Frame)
                          THEN <<base64Frame[1]>> ELSE base64Frame
         IN [type |-> "frame", data |-> frameData, session_id |-> sessionId]
    ELSE <<>>

\* sendFrame: the message it puts on the socket, <<>> when it sends nothing
sendFrame(base64Frame) ==
    IF sendFrameSends
    THEN LET frameData == IF IncludesComma(base64Frame)
                          THEN SplitComma1(base64Frame) ELSE base64Frame
         IN [type |-> "frame", data |-> frameData, session_id |-> sessionId]
    ELSE <<>>

\* captureFrameWithQuality on the frame the video shows: the frame with its
\* metrics, or null (<<>>) when a ref is unset or the score is below minQuality
captureFrameWithQuality(f) ==
    IF ~videoRefSet THEN <<>>
    ELSE LET metrics == MetricsTable[prevImageDataRef, f]
         IN IF isFrameGoodQuality(metrics, minQuality)
            THEN [frame |-> toDataURL(f), metrics |-> metrics]
            ELSE <<>>

\* captureFrame: the frame, or null (<<>>) when a ref is unset
captureFrame(f) == IF ~videoRefSet THEN <<>> ELSE [frame |-> toDataURL(f)]

\* Emission without the fallback branch
EmissionNoFallback(f) ==
    LET result == captureFrameWithQuality(f)
    IN IF result # <<>>
       THEN <<[frame |-> result.frame, metrics |-> result.metrics]>>
       ELSE <<>>

\* the interval callback: the onFrame calls it makes, in order
Emission(f) ==
    LET result == captureFrameWithQuality(f)
    IN IF result # <<>>
       THEN <<[frame |-> result.frame, metrics |-> result.metrics]>>
       ELSE LET fallbackFrame == captureFrame(f)
            IN IF fallbackFrame # <<>>
               THEN <<[frame |-> fallbackFrame.frame, metrics |-> Placeholder]>>
               ELSE <<>>

\* captureTick that shows the metrics of every frame it emits
captureTickShowsEmitted ==
    /\ mounted /\ timerActive
    /\ \E f \in FrameIds :
         LET calls == Emission(f)
             good  == captureFrameWithQuality(f) # <<>>
             sendCalled == calls # <<>> /\ handleFrameSends
             wire  == IF sendCalled THEN sendFrame(calls[1].frame) ELSE <<>>
             sends == wire # <<>>
         IN /\ prevImageDataRef' = IF videoRefSet THEN f ELSE prevImageDataRef
            /\ frameMetrics' = IF calls # <<>> THEN calls[1].metrics ELSE frameMetrics
            /\ gotFrame' = IF sends THEN [gotFrame EXCEPT ![wsRef] = TRUE] ELSE gotFrame
            /\ tick' = [avail |-> videoRefSet,
                        calls |-> Len(calls),
                        metrics |-> IF calls # <<>> THEN calls[1].metrics ELSE <<>>,
                        real |-> IF videoRefSet THEN MetricsTable[prevImageDataRef, f]
                                 ELSE <<>>,
                        sent |-> sends,
                        connected |-> isConnected, processing |-> isProcessing,
                        sendCalled |-> sendCalled, ready |-> ReadyState, wire |-> wire]
            /\ called' = {"tick"} \cup (IF calls # <<>> THEN {"onFrame"} ELSE {})
                                 \cup (IF sendCalled THEN {"sendFrame"} ELSE {})
    /\ UNCHANGED <<cam, streamRef, isStreaming, camError>>
    /\ UNCHANGED <<sock, wsRef, isConnected, isProcessing, currentResult, wsError>>
    /\ UNCHANGED <<compVars, commitVars, lifeVars, termSeen>>
    /\ NoEvent
    /\ UNCHANGED auxVars
    /\ NoStop /\ NoDisconnect
    /\ Schedule

\* the callback of the auto-capture interval
captureTick ==
    /\ mounted /\ timerActive
    /\ \E f \in FrameIds :
         LET calls == Emission(f)
             good  == captureFrameWithQuality(f) # <<>>
             sendCalled == calls # <<>> /\ handleFrameSends
             wire  == IF sendCalled THEN sendFrame(calls[1].frame) ELSE <<>>
             sends == wire # <<>>
         IN /\ prevImageDataRef' = IF videoRefSet THEN f ELSE prevImageDataRef
            /\ frameMetrics' = IF good THEN calls[1].metrics ELSE frameMetrics
            /\ gotFrame' = IF sends THEN [gotFrame EXCEPT ![wsRef] = TRUE] ELSE gotFrame
            /\ tick' = [avail |-> videoRefSet,
                        calls |-> Len(calls),
                        metrics |-> IF calls # <<>> THEN calls[1].metrics ELSE <<>>,
                        real |-> IF videoRefSet THEN MetricsTable[prevImageDataRef, f]
                                 ELSE <<>>,
                        sent |-> sends,
                        connected |-> isConnected, processing |-> isProcessing,
                        sendCalled |-> sendCalled, ready |-> ReadyState, wire |-> wire]
            /\ called' = {"tick"} \cup (IF calls # <<>> THEN {"onFrame"} ELSE {})
                                 \cup (IF sendCalled THEN {"sendFrame"} ELSE {})
    /\ UNCHANGED <<cam, streamRef, isStreaming, camError>>
    /\ UNCHANGED <<sock, wsRef, isConnected, isProcessing, currentResult, wsError>>
    /\ UNCHANGED <<compVars, commitVars, lifeVars, termSeen>>
    /\ NoEvent
    /\ UNCHANGED auxVars
    /\ NoStop /\ NoDisconnect
    /\ Schedule

(***************************************************************************)
(* Events of a socket: the handlers connect() installed                    *)
(***************************************************************************)

socketOpen(s) ==
    /\ sock[s] = "connecting"
    /\ sock' = [sock EXCEPT ![s] = "open"]
    /\ isConnected' = Set(isConnected, TRUE)
    /\ wsError' = Set(wsError, FALSE)
    /\ UNCHANGED <<videoVars, gotFrame, wsRef, isProcessing, currentResult>>
    /\ UNCHANGED <<compVars, commitVars, lifeVars, termSeen>>
    /\ called' = {"onopen"}
    /\ evSock' = s /\ evMsg' = NoMsg
    /\ UNCHANGED auxVars
    /\ NoStop /\ NoDisconnect /\ NoCapture
    /\ Schedule

\* socketClose that leaves the processing flag as it was
socketCloseKeepsProcessing(s) ==
    /\ sock[s] \in {"connecting", "open", "closing"}
    /\ sock' = [sock EXCEPT ![s] = "closed"]
    /\ isConnected' = Set(isConnected, FALSE)
    /\ isProcessing' = isProcessing
    /\ UNCHANGED <<videoVars, gotFrame, wsRef, currentResult, wsError>>
    /\ UNCHANGED <<compVars, commitVars, lifeVars, termSeen>>
    /\ called' = {"onclose"}
    /\ evSock' = s /\ evMsg' = NoMsg
    /\ UNCHANGED auxVars
    /\ NoStop /\ NoDisconnect /\ NoCapture
    /\ Schedule

\* close event: the end of a local close, a close by the server, or the close
\* that follows a failed connection
socketClose(s) ==
    /\ sock[s] \in {"connecting", "open", "closing"}
    /\ sock' = [sock EXCEPT ![s] = "closed"]
    /\ isConnected' = Set(isConnected, FALSE)
    /\ isProcessing' = Set(isProcessing, FALSE)
    /\ UNCHANGED <<videoVars, gotFrame, wsRef, currentResult, wsError>>
    /\ UNCHANGED <<compVars, commitVars, lifeVars, termSeen>>
    /\ called' = {"onclose"}
    /\ evSock' = s /\ evMsg' = NoMsg
    /\ UNCHANGED auxVars
    /\ NoStop /\ NoDisconnect /\ NoCapture
    /\ Schedule

\* error event: the connection fails; its close event follows
socketError(s) ==
    /\ sock[s] \in {"connecting", "open"}
    /\ sock' = [sock EXCEPT ![s] = "closing"]
    /\ wsError' = Set(wsError, TRUE)
    /\ UNCHANGED <<videoVars, gotFrame, wsRef, isConnected, isProcessing, currentResult>>
    /\ UNCHANGED <<compVars, commitVars, lifeVars, termSeen>>
    /\ called' = {"onerror"}
    /\ evSock' = s /\ evMsg' = NoMsg
    /\ UNCHANGED auxVars
    /\ NoStop /\ NoDisconnect /\ NoCapture
    /\ Schedule

\* ProcessingAfter with a low_confidence message ending the cycle
ProcessingAfterHintEnds(type, old) ==
    IF type = "processing_started" THEN TRUE
    ELSE IF type \in {"complete", "error", "dropped", "low_confidence"} THEN FALSE
    ELSE old

\* ws.onmessage: the processing flag after a message of the type
ProcessingAfter(type, old) ==
    IF type = "processing_started" THEN TRUE
    ELSE IF type \in {"complete", "error", "dropped"} THEN FALSE
    ELSE old

\* ResultAfter that keeps the first result it was given
ResultAfterKeepsFirst(type, old) ==
    IF old = "null" /\ type \in {"token", "partial", "complete", "error", "dropped",
                                  "low_confidence", "quality_warning"}
    THEN type ELSE old

\* ws.onmessage: currentResult after a message of the type
ResultAfter(type, old) ==
    IF type \in {"token", "partial", "complete", "error", "dropped",
                 "low_confidence", "quality_warning"}
    THEN type ELSE old

\* socketMessage whose catch branch ends the processing cycle
socketMessageCatchResets(s, m) ==
    /\ sock[s] = "open" /\ gotFrame[s]
    /\ IF m = "malformed"
       THEN /\ isProcessing' = Set(isProcessing, FALSE)
            /\ UNCHANGED <<currentResult, compVars, termSeen>>
            /\ called' = {"onmessage"}
       ELSE /\ isProcessing' = Set(isProcessing, ProcessingAfter(TypeOf(m), isProcessing))
            /\ currentResult' = Set(currentResult, ResultAfter(TypeOf(m), currentResult))
            /\ detectionResult' =
                 Set(detectionResult,
                     IF m = "complete" THEN "data"
                     ELSE IF m = "complete_empty" THEN "null" ELSE detectionResult)
            /\ mode' = Set(mode, IF TypeOf(m) = "complete" THEN "result" ELSE mode)
            /\ termSeen' = (termSeen \/ (mounted /\ isStreaming /\ TypeOf(m) \in Terminal))
            /\ called' = {"onmessage", "onResult"}
    /\ UNCHANGED <<videoVars, sock, gotFrame, wsRef, isConnected, wsError>>
    /\ UNCHANGED <<commitVars, lifeVars>>
    /\ evSock' = s /\ evMsg' = [kind |-> m, processing |-> isProcessing]
    /\ UNCHANGED auxVars
    /\ NoStop /\ NoDisconnect /\ NoCapture
    /\ Schedule

\* ws.onmessage on the message, then onResult of LiveVideoAnalysis
socketMessage(s, m) ==
    /\ sock[s] = "open" /\ gotFrame[s]
    /\ IF m = "malformed"
       THEN /\ UNCHANGED <<isProcessing, currentResult, compVars, termSeen>>
            /\ called' = {"onmessage"}
       ELSE /\ isProcessing' = Set(isProcessing, ProcessingAfter(TypeOf(m), isProcessing))
            /\ currentResult' = Set(currentResult, ResultAfter(TypeOf(m), currentResult))
            /\ detectionResult' =
                 Set(detectionResult,
                     IF m = "complete" THEN "data"
                     ELSE IF m = "complete_empty" THEN "null" ELSE detectionResult)
            /\ mode' = Set(mode, IF TypeOf(m) = "complete" THEN "result" ELSE mode)
            /\ termSeen' = (termSeen \/ (mounted /\ isStreaming /\ TypeOf(m) \in Terminal))
            /\ called' = {"onmessage", "onResult"}
    /\ UNCHANGED <<videoVars, sock, gotFrame, wsRef, isConnected, wsError>>
    /\ UNCHANGED <<commitVars, lifeVars>>
    /\ evSock' = s /\ evMsg' = [kind |-> m, processing |-> isProcessing]
    /\ UNCHANGED auxVars
    /\ NoStop /\ NoDisconnect /\ NoCapture
    /\ Schedule

\* the keep-alive effect of useVisionWebSocket: its interval is set by the
\* commit of a render with isConnected true and cleared by the next commit
\* or the unmount
pingTimerSet == mounted /\ isConnectedRef

\* sendPing puts {type: 'ping'} on the socket only if it is open
sendPingSends == ReadyState = "open"

\* the keep-alive interval fires: sendPing()
pingTick ==
    /\ pingTimerSet
    /\ called' = {"sendPing"} \cup (IF sendPingSends THEN {"ping"} ELSE {})
    /\ UNCHANGED <<videoVars, wsVars, compVars, commitVars, lifeVars, dirty, termSeen>>
    /\ NoEvent
    /\ UNCHANGED auxVars
    /\ NoStop /\ NoDisconnect /\ NoCapture

(***************************************************************************)
(* React renders the scheduled updates and runs the passive effects        *)
(***************************************************************************)

render ==
    /\ mounted /\ dirty
    /\ shownMode' = mode
    /\ shownDetection' = detectionResult
    /\ shownCamError' = camError
    /\ isConnectedRef' = isConnected
    /\ isProcessingRef' = isProcessing
    /\ timerActive' = isStreaming
    \* "Stop camera and websocket when detection completes"
    /\ IF mode = "result" /\ shownMode # "result"
       THEN /\ stopStream
            /\ disconnect
            /\ called' = {"render", "stopStream", "disconnect"}
       ELSE /\ UNCHANGED <<videoVars, sock, wsRef, isConnected, isProcessing,
                           currentResult, wsError>>
            /\ NoStop /\ NoDisconnect
            /\ called' = {"render"}
    \* "Call onDetectionComplete when result is ready"
    /\ exitPending' = (exitPending \/
                        (/\ mode = "result" /\ detectionResult # "null"
                         /\ (shownMode # mode \/ shownDetection # detectionResult)))
    /\ UNCHANGED <<gotFrame, compVars, mounted>>
    /\ NoEvent
    /\ UNCHANGED auxVars
    /\ NoCapture
    /\ termSeen' = (termSeen /\ isStreaming')
    /\ dirty' = (ReactState' # ReactState)

\* the parent leaves live mode: the cleanups of the effects run, the one of
\* useVideoStream first, then stopStream() and disconnectWs() of the component
unmount ==
    /\ mounted /\ exitPending
    /\ mounted' = FALSE
    /\ timerActive' = FALSE
    /\ LET r == stopStreamFn(cleanupFn(VideoRec))
       IN /\ cam' = r.cam
          /\ streamRef' = r.streamRef
          /\ isStreaming' = r.isStreaming
          /\ stopPre' = IF isStreaming THEN "streaming" ELSE "idle"
    /\ disconnect
    /\ UNCHANGED <<prevImageDataRef, camError, frameMetrics, gotFrame, compVars>>
    /\ UNCHANGED <<isConnectedRef, isProcessingRef, shownMode, shownDetection,
                   shownCamError, exitPending>>
    /\ called' = {"unmount", "stopStream", "disconnect"}
    /\ NoEvent
    /\ UNCHANGED auxVars
    /\ NoCapture
    /\ termSeen' = FALSE
    /\ dirty' = FALSE

Next ==
    \/ handleStart
    \/ handleStop
    \/ handleRetry
    \/ handleCancel
    \/ \E i \in ReqIds : cameraResolve(i)
    \/ \E i \in ReqIds : cameraReject(i)
    \/ captureTick
    \/ pingTick
    \/ \E s \in SockIds : socketOpen(s)
    \/ \E s \in SockIds : socketClose(s)
    \/ \E s \in SockIds : socketError(s)
    \/ \E s \in SockIds, m \in MsgKinds : socketMessage(s, m)
    \/ render
    \/ unmount

Spec == Init /\ [][Next]_vars

(***************************************************************************)
(* frameQuality called on its own: the buffers the capture loop passes to  *)
(* assessFrameQuality, frame after frame                                   *)
(***************************************************************************)

\* largest width and height of a buffer
MaxSide == 5

Patterns == {"black", "gray", "white", "stripes"}

\* the gray levels of a w x h picture of the pattern
PatternPx(w, h, pat) ==
    [r \in 0..(h - 1), c \in 0..(w - 1) |->
       IF pat = "black" THEN 0
       ELSE IF pat = "gray" THEN 128
       ELSE IF pat = "white" THEN 255
       ELSE IF c % 2 = 0 THEN 0 ELSE 255]

\* a buffer is named by <<width, height, pattern>>
Buffers == {<<w, h, pat>> : w \in 1..MaxSide, h \in 1..MaxSide, pat \in Patterns}

\* the ImageData of a buffer; <<>> is null
BufferOf(b) == IF b = <<>> THEN <<>> ELSE ImageOf(b[1], b[2], PatternPx(b[1], b[2], b[3]))

\* the first frame of a capture loop: no previous snapshot
InitQuality ==
    /\ InitProg /\ SendIdle /\ PageInit
    /\ qImage \in Buffers /\ qPrev = <<>> /\ qRaw = <<>> /\ qOut = <<>>

\* assessFrameQuality(imageData, prevImageDataRef.current)
assess ==
    /\ qOut = <<>>
    /\ qRaw' = Estimates(BufferOf(qImage), BufferOf(qPrev))
    /\ qOut' = assessFrameQuality(BufferOf(qImage), BufferOf(qPrev))
    /\ UNCHANGED <<qImage, qPrev, progVars, sendVars, pageVars>>

\* prevImageDataRef.current = imageData, and the next tick reads a new frame
nextFrame ==
    /\ qOut # <<>>
    /\ qPrev' = qImage
    /\ qImage' \in Buffers
    /\ qRaw' = <<>> /\ qOut' = <<>>
    /\ UNCHANGED <<progVars, sendVars, pageVars>>

NextQuality == assess \/ nextFrame

SpecQuality == InitQuality /\ [][NextQuality]_vars

(***************************************************************************)
(* The scoring of assessFrameQuality on chosen estimates (in hundredths):  *)
(* the band limits of each check, and values on both sides of them         *)
(***************************************************************************)

BrightnessVals == {0, 2999, 3000, 4999, 5000, 12800, 20000, 20001, 24000, 24001, 25500}

ContrastVals == {0, 1999, 2000, 3999, 4000, 12750}

SharpnessVals == {0, 2000, 2999, 3000, 5999, 6000, 7000, 25500}

StabilityVals == {0, 4999, 5000, 7499, 7500, 10000}

InitScore ==
    /\ InitProg /\ SendIdle /\ PageInit
    /\ qImage = <<>> /\ qPrev = <<>> /\ qOut = <<>>
    /\ qRaw \in [brightness : BrightnessVals, contrast : ContrastVals,
                 sharpness : SharpnessVals, stability : StabilityVals]

\* lines 230-267 of assessFrameQuality on the estimates
score ==
    /\ qOut = <<>>
    /\ qOut' = MetricsOf(qRaw)
    /\ UNCHANGED <<qImage, qPrev, qRaw, progVars, sendVars, pageVars>>

NextScore == score

SpecScore == InitScore /\ [][NextScore]_vars

(***************************************************************************)
(* sendFrame on chosen strings: a data URI of either image type, or bare   *)
(* base64 text, on a socket in each ready state                            *)
(***************************************************************************)

MaxChunks == 2

Prefixes == {"data:image/jpeg;base64", "data:image/png;base64"}

\* pieces of base64 text: none holds a comma
Chunks == {"QUJD", "/9j/"}

Base64Texts == UNION {[1..n -> Chunks] : n \in 0..MaxChunks}

DataUris == {<<p, ",">> \o b : p \in Prefixes, b \in Base64Texts}

FrameStrings == Base64Texts \cup DataUris

InitSend ==
    /\ InitRest /\ QualIdle /\ PageInit
    /\ \E r \in {"absent", "connecting", "open", "closing", "closed"} :
         IF r = "absent"
         THEN wsRef = 0 /\ sock = [s \in SockIds |-> "unused"]
         ELSE wsRef = 1 /\ sock = [s \in SockIds |-> IF s = 1 THEN r ELSE "unused"]
    /\ sfArg \in FrameStrings /\ sfCalled = FALSE /\ sfWire = <<>>

\* sendFrame(base64Frame)
callSendFrame ==
    /\ ~sfCalled
    /\ sfCalled' = TRUE
    /\ sfWire' = sendFrame(sfArg)
    /\ UNCHANGED <<sfArg, progVars, qualVars, pageVars>>

\* the caller passes its next frame
nextString ==
    /\ sfCalled
    /\ sfArg' \in FrameStrings
    /\ sfCalled' = FALSE /\ sfWire' = <<>>
    /\ UNCHANGED <<progVars, qualVars, pageVars>>

NextSend == callSendFrame \/ nextString

SpecSend == InitSend /\ [][NextSend]_vars

(***************************************************************************)
(* Home (app/page.tsx): sessions, live mode and the confirmation of a      *)
(* detection.  A click is handled on a rendered page; a request settles    *)
(* at any time.                                                            *)
(***************************************************************************)

InitPage == InitProg /\ QualIdle /\ SendIdle /\ PageInit

\* the chat page is on screen
ChatShown == ~isLiveMode /\ ~pageDirty

\* <DetectionConfirm> is rendered: pendingDetection && !isLoading
DialogShown == ChatShown /\ pendingDetection # 0 /\ ~isLoading

\* <LiveVideoAnalysis> is rendered
LiveShown == isLiveMode /\ currentSessionId # 0 /\ ~pageDirty

CanCreate == \E i \in CreateIds : createReq[i].state = "unused"

\* handleNewSession() up to its await: createSession() is requested
handleNewSession(by) ==
    LET i == CHOOSE j \in CreateIds :
                 /\ createReq[j].state = "unused"
                 /\ \A h \in 1..(j - 1) : createReq[h].state # "unused"
    IN [createReq EXCEPT ![i] = [state |-> "pending", by |-> by]]

\* the New Session button of the sidebar
clickNewSession ==
    /\ ChatShown /\ CanCreate
    /\ createReq' = handleNewSession("button")
    /\ UNCHANGED <<isLiveMode, currentSessionId, loadReq, pageDirty, pendingDetection,
                   isLoading, msgReq, confirm>>
    /\ UNCHANGED <<progVars, qualVars, sendVars>>

\* the Live button
clickLive ==
    /\ ChatShown
    /\ currentSessionId = 0 => CanCreate
    /\ createReq' = IF currentSessionId = 0 THEN handleNewSession("live") ELSE createReq
    /\ isLiveMode' = TRUE
    /\ pageDirty' = TRUE
    /\ UNCHANGED <<currentSessionId, loadReq, pendingDetection, isLoading, msgReq, confirm>>
    /\ UNCHANGED <<progVars, qualVars, sendVars>>

\* a render of Home: in live mode without a session it calls handleNewSession()
\* and returns null
pageRender ==
    /\ pageDirty
    /\ (isLiveMode /\ currentSessionId = 0) => CanCreate
    /\ createReq' = IF isLiveMode /\ currentSessionId = 0
                    THEN handleNewSession("render") ELSE createReq
    /\ pageDirty' = FALSE
    /\ UNCHANGED <<isLiveMode, currentSessionId, loadReq, pendingDetection, isLoading,
                   msgReq, confirm>>
    /\ UNCHANGED <<progVars, qualVars, sendVars>>

\* createSession() resolves: the rest of handleNewSession
createResolve(i) ==
    /\ createReq[i].state = "pending"
    /\ createReq' = [createReq EXCEPT ![i].state = "resolved"]
    /\ currentSessionId' = i
    /\ pageDirty' = TRUE
    /\ UNCHANGED <<isLiveMode, loadReq, pendingDetection, isLoading, msgReq, confirm>>
    /\ UNCHANGED <<progVars, qualVars, sendVars>>

\* createSession() throws: the catch of handleNewSession logs
createReject(i) ==
    /\ createReq[i].state = "pending"
    /\ createReq' = [createReq EXCEPT ![i].state = "rejected"]
    /\ UNCHANGED <<isLiveMode, currentSessionId, loadReq, pageDirty, pendingDetection,
                   isLoading, msgReq, confirm>>
    /\ UNCHANGED <<progVars, qualVars, sendVars>>

\* getSessions() of loadSessions settles: setSessions(data), or the catch logs
loadSettles(ok) ==
    /\ loadReq = "pending"
    /\ loadReq' = "done"
    /\ pageDirty' = (pageDirty \/ ok)
    /\ UNCHANGED <<isLiveMode, currentSessionId, createReq, pendingDetection, isLoading,
                   msgReq, confirm>>
    /\ UNCHANGED <<progVars, qualVars, sendVars>>

\* handleLiveDetectionComplete, called by LiveVideoAnalysis
handleLiveDetectionComplete ==
    /\ LiveShown
    /\ isLiveMode' = FALSE
    /\ pageDirty' = TRUE
    /\ UNCHANGED <<currentSessionId, createReq, loadReq, pendingDetection, isLoading,
                   msgReq, confirm>>
    /\ UNCHANGED <<progVars, qualVars, sendVars>>

\* handleSendMessage up to its await; ChatInput does not submit while isLoading
handleSendMessage ==
    /\ ChatShown /\ ~isLoading
    /\ msgReq.pc = "idle"
    /\ isLoading' = TRUE
    /\ msgReq' = [pc |-> "pending", session |-> currentSessionId]
    /\ pageDirty' = TRUE
    /\ UNCHANGED <<isLiveMode, currentSessionId, createReq, loadReq, pendingDetection,
                   confirm>>
    /\ UNCHANGED <<progVars, qualVars, sendVars>>

\* sendMessage() of handleSendMessage settles: a detection, another response,
\* or a failure; currentSessionId is the one the handler was created with
messageSettles(kind) ==
    /\ msgReq.pc = "pending"
    /\ LET session_id == IF msgReq.session # 0 THEN msgReq.session ELSE ChatSession
           isNew == kind # "failed" /\ msgReq.session = 0
       IN /\ currentSessionId' = IF isNew THEN session_id ELSE currentSessionId
          /\ loadReq' = IF isNew THEN "pending" ELSE loadReq
          /\ pendingDetection' = IF kind = "detection" THEN session_id
                                 ELSE pendingDetection
    /\ isLoading' = FALSE
    /\ msgReq' = [pc |-> "idle", session |-> 0]
    /\ pageDirty' = TRUE
    /\ UNCHANGED <<isLiveMode, createReq, confirm>>
    /\ UNCHANGED <<progVars, qualVars, sendVars>>

\* handleConfirmDetection that sends the search before the update has settled
handleConfirmDetectionSearchFirst(k) ==
    /\ DialogShown
    /\ confirm[k].pc = "unused" /\ \A h \in 1..(k - 1) : confirm[h].pc # "unused"
    /\ confirm' = [confirm EXCEPT ![k] =
                      [pc |-> "updating", session |-> pendingDetection,
                       update |-> "pending", searches |-> 1,
                       searchSession |-> pendingDetection]]
    /\ pageDirty' = TRUE
    /\ UNCHANGED <<isLiveMode, currentSessionId, createReq, loadReq, pendingDetection,
                   isLoading, msgReq>>
    /\ UNCHANGED <<progVars, qualVars, sendVars>>

\* the confirm button of DetectionConfirm: handleConfirmDetection up to
\* await updateDetectedItem(pendingDetection.sessionId, confirmedData)
handleConfirmDetection(k) ==
    /\ DialogShown
    /\ confirm[k].pc = "unused" /\ \A h \in 1..(k - 1) : confirm[h].pc # "unused"
    /\ confirm' = [confirm EXCEPT ![k] =
                      [pc |-> "updating", session |-> pendingDetection,
                       update |-> "pending", searches |-> 0, searchSession |-> 0]]
    /\ pageDirty' = TRUE
    /\ UNCHANGED <<isLiveMode, currentSessionId, createReq, loadReq, pendingDetection,
                   isLoading, msgReq>>
    /\ UNCHANGED <<progVars, qualVars, sendVars>>

\* updateDetectedItem() settles, either way: setPendingDetection(null),
\* setIsLoading(true) and sendMessage("Find repair solutions", sessionId)
updateSettles(k, ok) ==
    /\ confirm[k].pc = "updating"
    /\ confirm' = [confirm EXCEPT ![k] =
                      [@ EXCEPT !.pc = "searching",
                                !.update = IF ok THEN "ok" ELSE "failed",
                                !.searches = @ + 1,
                                !.searchSession = confirm[k].session]]
    /\ pendingDetection' = 0
    /\ isLoading' = TRUE
    /\ pageDirty' = TRUE
    /\ UNCHANGED <<isLiveMode, currentSessionId, createReq, loadReq, msgReq>>
    /\ UNCHANGED <<progVars, qualVars, sendVars>>

\* the search settles: loadSessions() on success, setIsLoading(false) in finally
searchSettles(k, ok) ==
    /\ confirm[k].pc = "searching"
    /\ confirm' = [confirm EXCEPT ![k].pc = "done"]
    /\ loadReq' = IF ok THEN "pending" ELSE loadReq
    /\ isLoading' = FALSE
    /\ pageDirty' = TRUE
    /\ UNCHANGED <<isLiveMode, currentSessionId, createReq, pendingDetection, msgReq>>
    /\ UNCHANGED <<progVars, qualVars, sendVars>>

\* the Skip button of DetectionConfirm
handleSkipConfirmation ==
    /\ DialogShown
    /\ pendingDetection' = 0
    /\ pageDirty' = TRUE
    /\ UNCHANGED <<isLiveMode, currentSessionId, createReq, loadReq, isLoading, msgReq,
                   confirm>>
    /\ UNCHANGED <<progVars, qualVars, sendVars>>

NextPage ==
    \/ clickNewSession
    \/ clickLive
    \/ pageRender
    \/ \E i \in CreateIds : createResolve(i)
    \/ \E i \in CreateIds : createReject(i)
    \/ \E ok \in BOOLEAN : loadSettles(ok)
    \/ handleLiveDetectionComplete
    \/ handleSendMessage
    \/ \E kind \in {"detection", "text", "failed"} : messageSettles(kind)
    \/ \E k \in ConfirmIds : handleConfirmDetection(k)
    \/ \E k \in ConfirmIds : \E ok \in BOOLEAN : updateSettles(k, ok)
    \/ \E k \in ConfirmIds : \E ok \in BOOLEAN : searchSettles(k, ok)
    \/ handleSkipConfirmation

SpecPage == InitPage /\ [][NextPage]_vars

(***************************************************************************)
(* Properties                                                              *)
(***************************************************************************)

\* C1: after stopStream() has returned, and after the unmount, no camera
\* stream the loop acquired has a live track, the stream handle is null and
\* the loop is idle.
C1_CameraReleased ==
    ("stopStream" \in called \/ ~mounted) =>
        /\ \A i \in ReqIds : cam[i] # "live"
        /\ streamRef = 0
        /\ (mounted => ~isStreaming)

\* C2: a camera stream that resolves late, or that an overlapping startStream()
\* replaces, is never left with live tracks outside the stream handle: every
\* live stream is the one streamRef holds.
C2_NoOrphanStream == \A i \in ReqIds : cam[i] = "live" => streamRef = i

\* C3: once a terminal result (complete, error, dropped) has arrived while the
\* loop was streaming and React has rendered every scheduled update, the loop
\* is idle.
C3_TerminalEndsStreaming == (termSeen /\ ~dirty) => ~isStreaming

\* C4: a tick that finds the video and the canvas calls onFrame exactly once,
\* with the real metrics of the frame when its score is at least minQuality and
\* with the placeholder metrics otherwise.
C4_FallbackEmits ==
    tick.avail =>
        /\ tick.calls = 1
        /\ tick.metrics = IF tick.real.score >= minQuality THEN tick.real ELSE Placeholder

\* C4 witness: a tick scored a frame below minQuality and emitted it with the
\* placeholder metrics.
C4_Witness ==
    tick.avail /\ tick.real.score < minQuality /\ tick.calls = 1 /\ tick.metrics = Placeholder

\* C5: a tick hands its frame to the socket only if the channel's state at
\* that moment is connected and not processing.
C5_LatestState == tick.sent => (tick.connected /\ ~tick.processing)

\* C6: between disconnect() and the next connect() (the handle is null) no
\* socket event changes isConnected, isProcessing or currentResult, and none
\* invokes onResult.
C6_DisconnectEffective ==
    [][(wsRef = 0 /\ evSock' # 0) =>
         /\ isConnected' = isConnected
         /\ isProcessing' = isProcessing
         /\ currentResult' = currentResult
         /\ "onResult" \notin called']_vars

\* C7: a close or message event of a socket that is not the current handle
\* never changes the state of the channel of the current one.
C7_OldSocketSilent ==
    [][(/\ evSock' # 0 /\ wsRef # 0 /\ evSock' # wsRef
        /\ called' \cap {"onclose", "onmessage"} # {}) =>
         /\ isConnected' = isConnected
         /\ isProcessing' = isProcessing
         /\ currentResult' = currentResult]_vars

\* C8: a step that calls disconnect() ends with isConnected false, isProcessing
\* false and a null handle, whatever the ready state of the socket was; the
\* only socket it touches is an open one, which it closes.
C8_DisconnectPost ==
    [][("disconnect" \in called') =>
         /\ ~isConnected'
         /\ ~isProcessing'
         /\ wsRef' = 0
         /\ (ReadyState = "open" => sock'[wsRef] = "closing")
         /\ \A s \in SockIds :
              sock'[s] # sock[s] => (s = wsRef /\ sock[s] = "open")]_vars

\* C8 witness: disconnect() was called on a socket that was still connecting.
C8_Witness ==
    "disconnect" \in called /\ discPre = "connecting" /\ ~isConnected /\ wsRef = 0

\* C9: after stopStream() the previous-frame snapshot is null.
C9_PrevCleared == ("stopStream" \in called) => prevImageDataRef = "null"

\* every socket the hook created has delivered its close event
ChannelClosed == \A s \in SockIds : sock[s] \in {"unused", "closed"}

\* the useState cells of each hook
VideoState(v) == <<v.isStreaming, v.error, v.frameMetrics>>

WsState(w) == <<w.isConnected, w.isProcessing, w.currentResult, w.error>>

\* C10: stopStream() on an idle loop and disconnect() on a closed channel leave
\* every state variable of their hook unchanged, and a second call of either
\* adds nothing to the first.
C10_Idempotent ==
    /\ ~isStreaming => VideoState(stopStreamFn(VideoRec)) = VideoState(VideoRec)
    /\ ChannelClosed => WsState(disconnectFn(WsRec)) = WsState(WsRec)
    /\ stopStreamFn(stopStreamFn(VideoRec)) = stopStreamFn(VideoRec)
    /\ disconnectFn(disconnectFn(WsRec)) = disconnectFn(WsRec)

\* C10 witness: stopStream() and disconnect() were called on an idle loop and
\* a closed channel that had a result.
C10_Witness ==
    /\ {"stopStream", "disconnect"} \subseteq called
    /\ stopPre = "idle" /\ discPre \in {"absent", "closed"}
    /\ currentResult # "null"

\* C11: a message delivered to the mounted hook sets isProcessing true when it
\* is processing_started, false when it is complete, error or dropped, and leaves
\* it as it was when it is token, partial, low_confidence or quality_warning; a
\* complete message that arrives while processing leaves isProcessing false and
\* currentResult of type complete.
C11_ProcessingTransitions ==
    [][(mounted /\ "onResult" \in called') =>
         LET type == TypeOf(evMsg'.kind)
         IN /\ type = "processing_started" => isProcessing'
            /\ type \in {"complete", "error", "dropped"} => ~isProcessing'
            /\ type \in {"token", "partial", "low_confidence", "quality_warning"}
                 => isProcessing' = isProcessing
            /\ (type = "complete" /\ isProcessing)
                 => (~isProcessing' /\ currentResult' = "complete")]_vars

\* C11 witness: a low_confidence message arrived while processing and the
\* flag is still set.
C11_Witness ==
    /\ mounted /\ "onResult" \in called
    /\ evMsg.kind = "low_confidence" /\ evMsg.processing /\ isProcessing
    /\ currentResult = "low_confidence"

\* C12: isConnected becomes true only in the open event of a socket, which
\* also clears the error; every close event leaves isConnected and isProcessing
\* false; an error event records the error and changes none of isConnected,
\* isProcessing and currentResult; a socket is created only by the user's click
\* on Start or Retry, never by an event.
C12_ConnectionTransitions ==
    [][/\ (~isConnected /\ isConnected') => ("onopen" \in called' /\ ~wsError')
       /\ (mounted /\ "onopen" \in called') => (isConnected' /\ ~wsError')
       /\ (mounted /\ "onclose" \in called') => (~isConnected' /\ ~isProcessing')
       /\ "onerror" \in called' =>
            /\ mounted => wsError'
            /\ isConnected' = isConnected
            /\ isProcessing' = isProcessing
            /\ currentResult' = currentResult
            /\ wsRef' = wsRef
       /\ (\E s \in SockIds : sock[s] = "unused" /\ sock'[s] # "unused")
            => called' = {"startStream", "connect"}]_vars

\* C12 witness: an error event arrived on a connected, processing channel and
\* only the error was recorded.
C12_Witness ==
    mounted /\ called = {"onerror"} /\ wsError /\ isConnected /\ isProcessing

\* C13: a message JSON.parse rejects changes none of isConnected, isProcessing,
\* currentResult and error, does not reach onResult, and leaves the socket and
\* its handlers as they were, so that the next message is handled as usual.
C13_MalformedDropped ==
    [][(evMsg'.kind = "malformed") =>
         /\ isConnected' = isConnected
         /\ isProcessing' = isProcessing
         /\ currentResult' = currentResult
         /\ wsError' = wsError
         /\ UNCHANGED <<mode, detectionResult>>
         /\ called' = {"onmessage"}
         /\ sock' = sock /\ gotFrame' = gotFrame /\ wsRef' = wsRef]_vars

\* C13 witness: a malformed message arrived while a frame was processed and a
\* partial result was shown; both are still there.
C13_Witness ==
    /\ mounted /\ evMsg.kind = "malformed" /\ evMsg.processing
    /\ isProcessing /\ isConnected /\ currentResult = "partial"

\* C14: a step that calls sendFrame changes no state of the channel hook; when
\* the handle is absent or its socket is not open nothing is transmitted, and
\* when the socket is open the message transmitted has the fields type 'frame',
\* data and session_id.
C14_SendFrameGuard ==
    [][("sendFrame" \in called') =>
         /\ UNCHANGED <<isConnected, isProcessing, currentResult, wsError, wsRef, sock>>
         /\ IF ReadyState = "open"
            THEN /\ DOMAIN tick'.wire = {"type", "data", "session_id"}
                 /\ tick'.wire.type = "frame"
                 /\ tick'.wire.session_id = sessionId
                 /\ gotFrame'[wsRef]
            ELSE /\ tick'.wire = <<>>
                 /\ gotFrame' = gotFrame]_vars

\* C14 witness: handleFrame called sendFrame on a handle whose socket was no
\* longer open, and nothing was transmitted.
C14_Witness ==
    /\ "sendFrame" \in called /\ tick.sendCalled
    /\ tick.ready \in {"closing", "closed"} /\ ~tick.sent /\ tick.wire = <<>>

\* C15: right after a camera request of the mounted hook is rejected the error
\* is set, isStreaming is false and no stream handle is held; and once that
\* state is rendered no capture interval is left.
C15_FailureIdle ==
    /\ (mounted /\ "startStream.rejected" \in called)
         => (camError /\ ~isStreaming /\ streamRef = 0)
    /\ (mounted /\ camError /\ ~isStreaming /\ ~dirty) => ~timerActive

\* C16: whenever the camera error is set and rendered and the component is not
\* on the streaming screen (where Stop leads back to the setup screen), a
\* button that calls startStream() is enabled: Start or Retry.
C16_RetryAvailable ==
    (mounted /\ ~dirty /\ camError /\ shownMode # "streaming")
        => (StartButtonEnabled \/ RetryButtonShown)

\* C17: for every buffer of positive width and height, with or without a
\* previous buffer, assessFrameQuality returns brightness, contrast and
\* sharpness within 0..255 and stability and score within 0..100, none NaN.
C17_MetricRanges ==
    qOut # <<>> =>
        /\ qOut.brightness \in 0..255
        /\ qOut.contrast \in 0..255
        /\ qOut.sharpness \in 0..255
        /\ qOut.stability \in 0..100
        /\ qOut.score \in 0..100

\* C18: for a buffer whose width or height is below the sampling stride of 4,
\* each estimator has at least one sample and returns a number.
C18_TinyBuffers ==
    (qOut # <<>> /\ (qImage[1] < 4 \/ qImage[2] < 4)) =>
        /\ Cardinality(Strided(Len(BufferOf(qImage).data))) >= 1
        /\ Cardinality(SharpSamples(BufferOf(qImage))) >= 1
        /\ qRaw.brightness # NaN /\ qRaw.contrast # NaN
        /\ qRaw.sharpness # NaN /\ qRaw.stability # NaN

\* C19: the score is max(0, 100 - p_brightness - p_contrast - p_sharpness -
\* p_stability) with the penalties of the table.
C19_PenaltyTable ==
    qOut # <<>> =>
        LET b  == qRaw.brightness
            c  == qRaw.contrast
            s  == qRaw.sharpness
            t  == qRaw.stability
            pb == IF b < 3000 \/ b > 24000 THEN 30
                  ELSE IF (3000 <= b /\ b < 5000) \/ (20000 < b /\ b <= 24000) THEN 15
                  ELSE 0
            pc == IF c < 2000 THEN 20 ELSE IF 2000 <= c /\ c < 4000 THEN 10 ELSE 0
            ps == IF s < 3000 THEN 40 ELSE IF 3000 <= s /\ s < 6000 THEN 20 ELSE 0
            pt == IF t < 5000 THEN 20 ELSE IF 5000 <= t /\ t < 7500 THEN 10 ELSE 0
        IN qOut.score = Max(0, 100 - pb - pc - ps - pt)

\* C19 witness: the estimates of a uniform mid-gray first frame score 40.
C19_Witness ==
    /\ qOut # <<>>
    /\ qRaw = [brightness |-> 12800, contrast |-> 0, sharpness |-> 0, stability |-> 10000]
    /\ qOut.score = 40

\* C20: estimateStability returns 100 without a previous buffer and for equal
\* buffers, 0 when the samples differ by 30 or more on average, and a number
\* within 0..100 for every pair of consecutive frames.
C20_StabilityMapping ==
    qOut # <<>> =>
        /\ qRaw.stability # NaN
        /\ 0 <= qRaw.stability /\ qRaw.stability <= 10000
        /\ qPrev = <<>> => qRaw.stability = 10000
        /\ qPrev = qImage => qRaw.stability = 10000
        /\ (qPrev # <<>> /\ qPrev[1] = qImage[1] /\ qPrev[2] = qImage[2]
            /\ {qPrev[3], qImage[3]} = {"black", "white"}) => qRaw.stability = 0

\* C21: with the other three estimates fixed, a brightness further from the
\* 50-200 band, a lower contrast, a lower sharpness or a lower stability never
\* gives a higher score.
C21_ScoreMonotone ==
    qOut # <<>> =>
        /\ \A v \in BrightnessVals :
             ((v <= qRaw.brightness /\ qRaw.brightness <= 20000)
                \/ (v >= qRaw.brightness /\ qRaw.brightness >= 5000))
             => MetricsOf([qRaw EXCEPT !.brightness = v]).score <= qOut.score
        /\ \A v \in ContrastVals : v <= qRaw.contrast
             => MetricsOf([qRaw EXCEPT !.contrast = v]).score <= qOut.score
        /\ \A v \in SharpnessVals : v <= qRaw.sharpness
             => MetricsOf([qRaw EXCEPT !.sharpness = v]).score <= qOut.score
        /\ \A v \in StabilityVals : v <= qRaw.stability
             => MetricsOf([qRaw EXCEPT !.stability = v]).score <= qOut.score

\* C21 witness: with sharpness 70 scored, sharpness 20 scores strictly less.
C21_Witness ==
    /\ qOut # <<>> /\ qRaw.sharpness = 7000
    /\ MetricsOf([qRaw EXCEPT !.sharpness = 2000]).score < qOut.score

\* C22: the data field of the payload sendFrame transmits is the bare base64
\* text: it holds no data-URI prefix and no comma, it is what follows the
\* prefix of a data URI, and a string without a prefix is sent unchanged.
C22_PrefixStripped ==
    (sfCalled /\ sfWire # <<>>) =>
        /\ sfWire.type = "frame"
        /\ \A i \in 1..Len(sfWire.data) : sfWire.data[i] \notin Prefixes \cup {","}
        /\ sfArg \in Base64Texts => sfWire.data = sfArg
        /\ \A pre \in Prefixes : \A b \in Base64Texts :
             sfArg = <<pre, ",">> \o b => sfWire.data = b

C22_Witness ==
    /\ sfCalled /\ sfWire # <<>>
    /\ sfArg = <<"data:image/jpeg;base64", ",", "/9j/", "QUJD">>
    /\ sfWire.data = <<"/9j/", "QUJD">>

\* C23: for every call of handleConfirmDetection, the request that stores the
\* corrected item has been issued and has settled (succeeded or failed) before
\* the search for the same session is sent, and the call sends the search
\* exactly once.
C23_ConfirmThenSearch ==
    \A k \in ConfirmIds :
        LET c == confirm[k]
        IN /\ c.pc # "unused" => (c.update # "none" /\ c.session # 0)
           /\ c.searches = (IF c.pc \in {"searching", "done"} THEN 1 ELSE 0)
           /\ c.searches > 0 => (c.update \in {"ok", "failed"}
                                   /\ c.searchSession = c.session)

C23_Witness ==
    /\ confirm[1].pc = "done" /\ confirm[1].update = "ok" /\ confirm[1].searches = 1
    /\ confirm[2].pc = "searching" /\ confirm[2].update = "failed"
    /\ confirm[2].searches = 1

\* C24: currentResult is the last message received whose type is token,
\* partial, complete, error, dropped, low_confidence or quality_warning: each
\* such message replaces it, a processing_started or unparseable message
\* leaves it as it was, and nothing but a message changes it.
C24_LastWriteWins ==
    [][/\ currentResult' # currentResult => evMsg'.kind # "none"
       /\ (mounted /\ evMsg'.kind # "none") =>
             currentResult' =
                 (IF evMsg'.kind \in {"processing_started", "malformed"}
                  THEN currentResult
                  ELSE IF evMsg'.kind = "complete_empty" THEN "complete"
                  ELSE evMsg'.kind)]_vars

\* C24 witness: a dropped result replaced what was shown before, and the
\* processing_started of the next frame has left it in place.
C24_Witness ==
    /\ mounted /\ evMsg.kind = "processing_started" /\ currentResult = "dropped"
    /\ isProcessing

\* C25: each time the keep-alive timer fires while isConnected is true a ping
\* goes out on the open channel, no ping goes out once isConnected is false,
\* and sendPing changes no state of the connection.
C25_KeepAlive ==
    [][("sendPing" \in called') =>
         /\ isConnected => "ping" \in called'
         /\ "ping" \in called' => isConnected
         /\ UNCHANGED wsVars]_vars

\* C26: while the component is mounted, isStreaming is true exactly when
\* streamRef.current holds a camera stream.
C26_FlagMatchesHandle == mounted => (isStreaming <=> streamRef # 0)

\* C27: after a frame was sent no further frame is sent until a terminal
\* result has arrived or the channel has closed; so a capture tick that sent a
\* frame is never directly followed by a capture tick that sends another.
C27_OneInFlight == [][~(tick.sent /\ tick'.sent)]_vars

\* C28: whenever the mounted component is in mode 'result', detectionResult
\* is non-null, and whenever the committed render is of mode 'result' the
\* result screen with its Retry and Cancel buttons is on screen.
C28_ResultShown ==
    /\ (mounted /\ mode = "result") => detectionResult # "null"
    /\ (mounted /\ shownMode = "result") => RetryButtonShown

\* C29: entering live mode without a current session issues exactly one
\* createSession request, that of the Live button: no render of the live
\* branch issues another, and at most one session comes of the entry.
C29_OneSessionPerEntry ==
    LET entry == {i \in CreateIds : createReq[i].by \in {"live", "render"}}
    IN /\ Cardinality(entry) <= 1
       /\ Cardinality({i \in entry : createReq[i].state = "resolved"}) <= 1

\* C30: frameMetrics, when non-null, has a score of at least minQuality; a
\* tick whose frame scores lower emits it through the fallback and leaves
\* frameMetrics as it was.
C30_MetricsOfPassingFrames ==
    [][/\ frameMetrics' # <<>> => frameMetrics'.score >= minQuality
       /\ ("tick" \in called' /\ tick'.avail /\ tick'.real.score < minQuality) =>
             /\ tick'.calls = 1 /\ "onFrame" \in called'
             /\ frameMetrics' = frameMetrics]_vars

\* C30 witness: a tick emitted a frame below minQuality through the fallback
\* while the metrics on display are those of an earlier, passing frame.
C30_Witness ==
    /\ "tick" \in called /\ tick.avail /\ tick.real.score < minQuality
    /\ tick.calls = 1 /\ tick.metrics = Placeholder
    /\ frameMetrics # <<>> /\ frameMetrics.score >= minQuality
    /\ frameMetrics # tick.real
====
